---- MODULE Spec2Model ----
(***************************************************************************)
(* Model of cpp_log_parser_cli (src/src/main.cpp).                         *)
(*                                                                         *)
(* A std::string is a sequence of bytes (0..255).  A C++ index i of a      *)
(* string s is s[i+1] here.  An unordered_map is a function whose DOMAIN   *)
(* is its key set; its iteration order is chosen nondeterministically.     *)
(***************************************************************************)
EXTENDS Integers, Sequences, FiniteSets, TLC

VARIABLES
    pc,          \* position of the run
    argv,        \* process argument vector, argv[1] is C++ argv[0]
    filepath,    \* main: std::string filepath
    top_n,       \* main: int top_n
    opened,      \* whether an ifstream was constructed on filepath
    file,        \* the lines of the opened stream
    pos,         \* number of lines getline has delivered
    stats,       \* Stats {total_lines, level_counts, message_counts}
    line,        \* process_file: std::string line
    level,       \* process_file: std::string level
    msg,         \* process_file: std::string msg
    out,         \* standard output, a sequence of printed items
    err,         \* standard error, a sequence of printed items
    exit_code    \* value returned by main, -1 while running

vars == <<pc, argv, filepath, top_n, opened, file, pos, stats,
          line, level, msg, out, err, exit_code>>

-----------------------------------------------------------------------------
(* Bounds of the model *)

\* longest input file, in lines
MaxLines == 3
\* longest classified line, in vocabulary pieces
MaxPieces == 3

-----------------------------------------------------------------------------
(* Byte strings *)

TRACE   == <<84, 82, 65, 67, 69>>
DEBUG   == <<68, 69, 66, 85, 71>>
INFO    == <<73, 78, 70, 79>>
WARN    == <<87, 65, 82, 78>>
WARNING == <<87, 65, 82, 78, 73, 78, 71>>
ERROR   == <<69, 82, 82, 79, 82>>
FATAL   == <<70, 65, 84, 65, 76>>
UNKNOWN == <<85, 78, 75, 78, 79, 87, 78>>

\* " - "
marker == <<32, 45, 32>>
\* "--top"
TopFlag == <<45, 45, 116, 111, 112>>
\* "log_parser"
DefaultExe == <<108, 111, 103, 95, 112, 97, 114, 115, 101, 114>>

\* std::isspace in the "C" locale: space, \t, \n, \v, \f, \r
isspace(c) == c \in {32, 9, 10, 11, 12, 13}

\* std::toupper in the "C" locale
toupper(c) == IF c >= 97 /\ c <= 122 THEN c - 32 ELSE c

\* std::string::substr(pos, n), the count clamped to the end of the string
substr(s, p, n) ==
    LET last == IF p + n > Len(s) THEN Len(s) ELSE p + n
    IN  SubSeq(s, p + 1, last)

\* operator< of std::string: lexicographic on unsigned bytes
RECURSIVE StrLess(_, _)
StrLess(a, b) ==
    IF b = <<>> THEN FALSE
    ELSE IF a = <<>> THEN TRUE
    ELSE IF Head(a) # Head(b) THEN Head(a) < Head(b)
    ELSE StrLess(Tail(a), Tail(b))

-----------------------------------------------------------------------------
(* trim *)

RECURSIVE trim_start(_, _)
trim_start(s, start) ==
    IF start < Len(s) /\ isspace(s[start + 1])
    THEN trim_start(s, start + 1)
    ELSE start

RECURSIVE trim_end(_, _, _)
trim_end(s, start, end) ==
    IF end > start /\ isspace(s[end])
    THEN trim_end(s, start, end - 1)
    ELSE end

trim(s) ==
    LET start == trim_start(s, 0)
        end   == trim_end(s, start, Len(s))
    IN  substr(s, start, end - start)

-----------------------------------------------------------------------------
(* extract_level *)

levels == <<TRACE, DEBUG, INFO, WARN, WARNING, ERROR, FATAL>>

\* operator>> on the istringstream: skip leading whitespace ...
RECURSIVE skip_ws(_, _)
skip_ws(s, p) ==
    IF p < Len(s) /\ isspace(s[p + 1]) THEN skip_ws(s, p + 1) ELSE p

\* ... then take characters up to the next whitespace or the end
RECURSIVE token_end(_, _)
token_end(s, p) ==
    IF p < Len(s) /\ ~isspace(s[p + 1]) THEN token_end(s, p + 1) ELSE p

\* to_upper without the uppercasing
to_upper_none(token) == token

\* the uppercasing loop over the token
to_upper(token) == [i \in 1..Len(token) |-> toupper(token[i])]

\* normalize without the WARNING case
normalize_none(upper) == upper

\* the result of the inner loop over levels for one uppercased token
normalize(upper) == IF upper = WARNING THEN WARN ELSE upper

\* the while (iss >> token) loop, the stream being at offset p
RECURSIVE scan_tokens(_, _)
scan_tokens(s, p) ==
    LET b == skip_ws(s, p)
        e == token_end(s, b)
        upper == to_upper(SubSeq(s, b + 1, e))
    IN  IF b >= Len(s) THEN UNKNOWN
        ELSE IF \E i \in 1..Len(levels) : upper = levels[i]
             THEN normalize(upper)
             ELSE scan_tokens(s, e)

extract_level(s) == scan_tokens(s, 0)

-----------------------------------------------------------------------------
(* extract_message *)

\* find returning the last match instead of the first
find_last(s, m, p) ==
    LET occ == {q \in p..Len(s) - Len(m) : SubSeq(s, q + 1, q + Len(m)) = m}
    IN  IF occ = {} THEN -1
        ELSE CHOOSE q \in occ : \A o \in occ : o <= q

\* std::string::find(m) from offset p: first match, or -1 for npos
RECURSIVE find(_, _, _)
find(s, m, p) ==
    IF p + Len(m) > Len(s) THEN -1
    ELSE IF SubSeq(s, p + 1, p + Len(m)) = m THEN p
    ELSE find(s, m, p + 1)

extract_message(s) ==
    LET p == find(s, marker, 0)
    IN  IF p # -1
        THEN trim(substr(s, p + Len(marker), Len(s)))
        ELSE trim(s)

-----------------------------------------------------------------------------
(* parse_args *)

DefaultTop == 5
IntMax == 2147483647

\* the digits of s in [p, e) accumulated in base 10, negatively when neg;
\* ok is FALSE when the value leaves the range of int (std::out_of_range)
RECURSIVE digits_value(_, _, _, _, _)
digits_value(s, p, e, neg, acc) ==
    IF p >= e THEN [ok |-> TRUE, value |-> acc]
    ELSE LET d == s[p + 1] - 48
             q == IntMax \div 10
             r == IntMax % 10
         IN  IF neg
             THEN IF acc < -q \/ (acc = -q /\ d > r + 1)
                  THEN [ok |-> FALSE, value |-> 0]
                  ELSE digits_value(s, p + 1, e, neg, acc * 10 - d)
             ELSE IF acc > q \/ (acc = q /\ d > r)
                  THEN [ok |-> FALSE, value |-> 0]
                  ELSE digits_value(s, p + 1, e, neg, acc * 10 + d)

RECURSIVE digits_end(_, _)
digits_end(s, p) ==
    IF p < Len(s) /\ s[p + 1] >= 48 /\ s[p + 1] <= 57
    THEN digits_end(s, p + 1)
    ELSE p

\* std::stoi: leading whitespace, an optional sign, then the longest run of
\* decimal digits; whatever follows the digits is ignored.  ok is FALSE when
\* it throws (no digits: std::invalid_argument; out of range: std::out_of_range)
stoi(s) ==
    LET b == skip_ws(s, 0)
        signed == b < Len(s) /\ s[b + 1] \in {43, 45}
        neg == signed /\ s[b + 1] = 45
        d == IF signed THEN b + 1 ELSE b
        e == digits_end(s, d)
    IN  IF e = d THEN [ok |-> FALSE, value |-> 0]
        ELSE digits_value(s, d, e, neg, 0)

\* C++ argv[i] and argc
Arg(av, i) == av[i + 1]
argc(av) == Len(av)

\* parse_args accepting any argument count other than 4 as <file>
parse_args_any_count(av, fp) ==
    IF argc(av) < 2
    THEN [ok |-> FALSE, filepath |-> fp, top_n |-> DefaultTop]
    ELSE IF argc(av) = 4
    THEN IF Arg(av, 2) # TopFlag
         THEN [ok |-> FALSE, filepath |-> Arg(av, 1), top_n |-> DefaultTop]
         ELSE LET r == stoi(Arg(av, 3))
              IN  IF r.ok
                  THEN [ok |-> TRUE, filepath |-> Arg(av, 1),
                        top_n |-> IF r.value < 1 THEN 1 ELSE r.value]
                  ELSE [ok |-> FALSE, filepath |-> Arg(av, 1), top_n |-> DefaultTop]
    ELSE [ok |-> TRUE, filepath |-> Arg(av, 1), top_n |-> DefaultTop]

\* parse_args without the clamp of top_n to 1
parse_args_no_clamp(av, fp) ==
    IF argc(av) < 2
    THEN [ok |-> FALSE, filepath |-> fp, top_n |-> DefaultTop]
    ELSE IF argc(av) = 4
    THEN IF Arg(av, 2) # TopFlag
         THEN [ok |-> FALSE, filepath |-> Arg(av, 1), top_n |-> DefaultTop]
         ELSE LET r == stoi(Arg(av, 3))
              IN  IF r.ok
                  THEN [ok |-> TRUE, filepath |-> Arg(av, 1), top_n |-> r.value]
                  ELSE [ok |-> FALSE, filepath |-> Arg(av, 1), top_n |-> DefaultTop]
    ELSE IF argc(av) # 2
    THEN [ok |-> FALSE, filepath |-> Arg(av, 1), top_n |-> DefaultTop]
    ELSE [ok |-> TRUE, filepath |-> Arg(av, 1), top_n |-> DefaultTop]

\* parse_args: ok is the returned bool, filepath and top_n the out-parameters
\* (fp is the caller's filepath, left untouched when argc < 2)
parse_args(av, fp) ==
    IF argc(av) < 2
    THEN [ok |-> FALSE, filepath |-> fp, top_n |-> DefaultTop]
    ELSE IF argc(av) = 4
    THEN IF Arg(av, 2) # TopFlag
         THEN [ok |-> FALSE, filepath |-> Arg(av, 1), top_n |-> DefaultTop]
         ELSE LET r == stoi(Arg(av, 3))
              IN  IF r.ok
                  THEN [ok |-> TRUE, filepath |-> Arg(av, 1),
                        top_n |-> IF r.value < 1 THEN 1 ELSE r.value]
                  ELSE [ok |-> FALSE, filepath |-> Arg(av, 1), top_n |-> DefaultTop]
    ELSE IF argc(av) # 2
    THEN [ok |-> FALSE, filepath |-> Arg(av, 1), top_n |-> DefaultTop]
    ELSE [ok |-> TRUE, filepath |-> Arg(av, 1), top_n |-> DefaultTop]

-----------------------------------------------------------------------------
(* Stats and the fold of process_file *)

EmptyMap == <<>>

EmptyStats ==
    [total_lines |-> 0, level_counts |-> EmptyMap, message_counts |-> EmptyMap]

\* m[k]++ on an unordered_map: a missing key is value-initialised to 0 first
Incr(m, k) ==
    [x \in DOMAIN m \cup {k} |-> IF x = k
                                 THEN (IF k \in DOMAIN m THEN m[k] ELSE 0) + 1
                                 ELSE m[x]]

\* fold skipping blank lines before counting them
fold_skip_blank(st, l) ==
    IF l = <<>> THEN st
    ELSE [total_lines    |-> st.total_lines + 1,
          level_counts   |-> Incr(st.level_counts, extract_level(l)),
          message_counts |-> IF extract_message(l) # <<>>
                             THEN Incr(st.message_counts, extract_message(l))
                             ELSE st.message_counts]

\* fold without the test for an empty message
fold_keep_empty(st, l) ==
    [total_lines    |-> st.total_lines + 1,
     level_counts   |-> Incr(st.level_counts, extract_level(l)),
     message_counts |-> Incr(st.message_counts, extract_message(l))]

\* the body of the while (std::getline(infile, line)) loop
fold(st, l) ==
    LET lv == extract_level(l)
        m  == extract_message(l)
    IN  [total_lines    |-> st.total_lines + 1,
         level_counts   |-> Incr(st.level_counts, lv),
         message_counts |-> IF m # <<>> THEN Incr(st.message_counts, m)
                                         ELSE st.message_counts]

-----------------------------------------------------------------------------
(* Output *)

\* one printed item: what it is, its text, its number and its rank
Item(kind, text, num, rank) ==
    [kind |-> kind, text |-> text, num |-> num, rank |-> rank]

print_usage(exe) == <<Item("usage", exe, 0, 0)>>

\* common with ERROR and DEBUG exchanged
common_swapped == <<INFO, WARN, DEBUG, ERROR, TRACE, FATAL, UNKNOWN>>

common == <<INFO, WARN, ERROR, DEBUG, TRACE, FATAL, UNKNOWN>>

InCommon(k) == \E i \in 1..Len(common) : common[i] = k

\* the loop over common: one line for each level found in the map
RECURSIVE common_lines(_, _)
common_lines(lc, i) ==
    IF i > Len(common) THEN <<>>
    ELSE (IF common[i] \in DOMAIN lc
          THEN <<Item("level", common[i], lc[common[i]], 0)>>
          ELSE <<>>) \o common_lines(lc, i + 1)

\* the loop over the map for the levels that are not in common; order is the
\* order in which the map's iteration meets those keys
extra_lines(lc, order) ==
    [i \in 1..Len(order) |-> Item("level", order[i], lc[order[i]], 0)]

\* comp without the tie-break on the message
comp_no_tiebreak(a, b) == a.second > b.second

\* the comparator handed to std::sort
comp(a, b) ==
    IF a.second # b.second THEN a.second > b.second
    ELSE StrLess(a.first, b.first)

\* std::sort(pairs, comp)
RECURSIVE insert(_, _)
insert(x, sorted) ==
    IF sorted = <<>> THEN <<x>>
    ELSE IF comp(x, Head(sorted)) THEN <<x>> \o sorted
    ELSE <<Head(sorted)>> \o insert(x, Tail(sorted))

RECURSIVE sort(_)
sort(pairs) ==
    IF pairs = <<>> THEN <<>> ELSE insert(Head(pairs), sort(Tail(pairs)))

\* pairs as filled from message_counts, order being the map's iteration order
make_pairs(mc, order) ==
    [i \in 1..Len(order) |-> [first |-> order[i], second |-> mc[order[i]]]]

\* int limit = std::min(top_n, static_cast<int>(pairs.size()))
top_limit(n, size) == IF size < n THEN size ELSE n

top_lines(pairs, limit) ==
    [i \in 1..limit |-> Item("entry", pairs[i].first, pairs[i].second, i)]

placeholder(limit) ==
    IF limit = 0 THEN <<Item("placeholder", <<>>, 0, 0)>> ELSE <<>>

\* print_results; extra_order and msg_order are the iteration orders of the
\* two unordered maps
print_results(st, n, extra_order, msg_order) ==
    LET pairs == sort(make_pairs(st.message_counts, msg_order))
        limit == top_limit(n, Len(pairs))
    IN  <<Item("summary", <<>>, 0, 0),
          Item("total", <<>>, st.total_lines, 0),
          Item("levels_header", <<>>, 0, 0)>>
        \o common_lines(st.level_counts, 1)
        \o extra_lines(st.level_counts, extra_order)
        \o <<Item("top_header", <<>>, 0, 0)>>
        \o top_lines(pairs, limit)
        \o placeholder(limit)

\* the orders in which an unordered container may enumerate the set S
Orders(S) ==
    {f \in [1..Cardinality(S) -> S] :
        \A i, j \in 1..Cardinality(S) : i # j => f[i] # f[j]}

-----------------------------------------------------------------------------
(* Inputs *)

\* "lp"
Exe == <<108, 112>>
\* "a.log" and "b"
Paths == {<<97, 46, 108, 111, 103>>, <<98>>}
\* "--top" and "--tap"
Flags == {TopFlag, <<45, 45, 116, 97, 112>>}
\* "2", "0", "-3", "5x", " +7", "abc", "", "99999999999"
TopValues ==
    {<<50>>, <<48>>, <<45, 51>>, <<53, 120>>, <<32, 43, 55>>,
     <<97, 98, 99>>, <<>>, <<57, 57, 57, 57, 57, 57, 57, 57, 57, 57, 57>>}

Argvs ==
    {<<>>, <<Exe>>}
    \cup {<<Exe, p>> : p \in Paths}
    \cup {<<Exe, p, TopFlag>> : p \in Paths}
    \cup {<<Exe, p, f, n>> : p \in Paths, f \in Flags, n \in TopValues}
    \cup {<<Exe, p, TopFlag, <<50>>, <<120>>>> : p \in Paths}

\* "x"
X == <<120>>
\* the lines an input file is made of
FileLines ==
    {<<>>,                                          \* blank line
     INFO \o <<32, 97>> \o marker \o X,             \* "INFO a - x"
     <<87, 97, 114, 110, 105, 110, 103>> \o marker \o X \o marker \o <<121>>,
                                                    \* "Warning - x - y"
     ERROR \o marker \o <<195, 169>>,               \* "ERROR - " and U+00E9
     <<100, 101, 98, 117, 103, 32>> \o X \o <<121>>,\* "debug xy"
     TRACE \o marker,                               \* "TRACE - "
     FATAL \o <<9, 45, 9>> \o X \o <<13>>,          \* "FATAL\t-\tx\r"
     <<32>> \o X \o <<121, 32>>}                    \* " xy "

RECURSIVE SeqsUpTo(_, _)
SeqsUpTo(S, n) ==
    IF n = 0 THEN {<<>>}
    ELSE LET shorter == SeqsUpTo(S, n - 1)
         IN  shorter \cup {Append(f, l) : f \in shorter, l \in S}

\* the files of at most MaxLines lines
Files == SeqsUpTo(FileLines, MaxLines)

\* the pieces a classified line is made of: whitespace, the hyphen, the
\* separator, level words in several cases, and other text
Vocabulary ==
    {<<32>>, <<9>>, <<45>>, marker, X, <<195>>,
     TRACE, <<100, 101, 98, 117, 103>>, INFO, <<87, 97, 114, 110>>,
     <<73, 78, 71>>, ERROR, <<70, 97, 116, 97, 76>>}

RECURSIVE Concats(_, _)
Concats(S, n) ==
    IF n = 0 THEN {<<>>}
    ELSE LET shorter == Concats(S, n - 1)
         IN  shorter \cup {l \o v : l \in shorter, v \in S}

\* the lines of at most MaxPieces pieces
LinePool == Concats(Vocabulary, MaxPieces)

-----------------------------------------------------------------------------
(* The run of main *)

Init ==
    /\ pc = "start"
    /\ argv \in Argvs
    /\ filepath = <<>>
    /\ top_n = DefaultTop
    /\ opened = "no"
    /\ file = <<>>
    /\ pos = 0
    /\ stats = EmptyStats
    /\ line = <<>>
    /\ level = <<>>
    /\ msg = <<>>
    /\ out = <<>>
    /\ err = <<>>
    /\ exit_code = -1

\* main: parse_args, and on failure print_usage and return 1
ParseArgs ==
    /\ pc = "start"
    /\ LET r == parse_args(argv, filepath)
       IN  /\ filepath' = r.filepath
           /\ top_n' = r.top_n
           /\ IF r.ok
              THEN /\ pc' = "open"
                   /\ UNCHANGED <<out, exit_code>>
              ELSE /\ out' = out \o print_usage(IF argc(argv) > 0
                                                THEN Arg(argv, 0)
                                                ELSE DefaultExe)
                   /\ exit_code' = 1
                   /\ pc' = "done"
    /\ UNCHANGED <<argv, opened, file, pos, stats, line, level, msg, err>>

\* process_file: the stream is not open; main reports it and returns 2
OpenFail ==
    /\ pc = "open"
    /\ opened' = "failed"
    /\ err' = err \o <<Item("open_error", filepath, 0, 0)>>
    /\ exit_code' = 2
    /\ pc' = "done"
    /\ UNCHANGED <<argv, filepath, top_n, file, pos, stats, line, level, msg, out>>

\* process_file: the stream is open on some file
OpenOk ==
    /\ pc = "open"
    /\ opened' = "yes"
    /\ \E f \in Files : file' = f
    /\ pc' = "read"
    /\ UNCHANGED <<argv, filepath, top_n, pos, stats, line, level, msg, out, err,
                   exit_code>>

\* process_file: getline delivers the next line and the loop body folds it
GetLine ==
    /\ pc = "read"
    /\ pos < Len(file)
    /\ line' = file[pos + 1]
    /\ pos' = pos + 1
    /\ level' = extract_level(line')
    /\ msg' = extract_message(line')
    /\ stats' = fold(stats, line')
    /\ UNCHANGED <<pc, argv, filepath, top_n, opened, file, out, err, exit_code>>

\* process_file: getline fails at the end of the file; main prints the
\* results and returns 0
Report ==
    /\ pc = "read"
    /\ pos = Len(file)
    /\ \E extra_order \in Orders({k \in DOMAIN stats.level_counts : ~InCommon(k)}),
          msg_order \in Orders(DOMAIN stats.message_counts) :
          out' = out \o print_results(stats, top_n, extra_order, msg_order)
    /\ exit_code' = 0
    /\ pc' = "done"
    /\ UNCHANGED <<argv, filepath, top_n, opened, file, pos, stats, line, level,
                   msg, err>>

Next == ParseArgs \/ OpenFail \/ OpenOk \/ GetLine \/ Report

Spec == Init /\ [][Next]_vars

-----------------------------------------------------------------------------
(* The line classifier on its own: one line, classified in two steps *)

LineInit ==
    /\ pc = "classify"
    /\ line \in LinePool
    /\ argv = <<>>
    /\ filepath = <<>>
    /\ top_n = DefaultTop
    /\ opened = "no"
    /\ file = <<>>
    /\ pos = 0
    /\ stats = EmptyStats
    /\ level = <<>>
    /\ msg = <<>>
    /\ out = <<>>
    /\ err = <<>>
    /\ exit_code = -1

ExtractLevel ==
    /\ pc = "classify"
    /\ level' = extract_level(line)
    /\ pc' = "level"
    /\ UNCHANGED <<argv, filepath, top_n, opened, file, pos, stats, line, msg,
                   out, err, exit_code>>

ExtractMessage ==
    /\ pc = "level"
    /\ msg' = extract_message(line)
    /\ pc' = "classified"
    /\ UNCHANGED <<argv, filepath, top_n, opened, file, pos, stats, line, level,
                   out, err, exit_code>>

LineNext == ExtractLevel \/ ExtractMessage

LineSpec == LineInit /\ [][LineNext]_vars

-----------------------------------------------------------------------------
(* Vocabulary of the properties *)

RECURSIVE SumOver(_, _)
SumOver(m, S) ==
    IF S = {} THEN 0
    ELSE LET k == CHOOSE x \in S : TRUE
         IN  m[k] + SumOver(m, S \ {k})

\* the sum of the values of a map
MapSum(m) == SumOver(m, DOMAIN m)

\* the items of one kind in a stream, in print order
Printed(stream, kind) == SelectSeq(stream, LAMBDA it : it.kind = kind)

Whitespace == {32, 9, 10, 11, 12, 13}

\* the run has returned from main
Done == pc = "done"

-----------------------------------------------------------------------------
(* C1: after any prefix of k lines of the file has been folded, blank lines
   included, total_lines is k and the values of level_counts sum to
   total_lines. *)
C1_TotalAndLevelSum ==
    /\ stats.total_lines = pos
    /\ MapSum(stats.level_counts) = stats.total_lines
    /\ pos <= Len(file)

\* two lines folded, the first of them blank
C1_Witness ==
    /\ pc = "read"
    /\ pos = 2
    /\ file[1] = <<>>
    /\ stats.total_lines = 2

-----------------------------------------------------------------------------
(* C2: the values of message_counts sum to the number of lines folded whose
   extracted message is non-empty; the empty string is never a key and every
   stored count is at least 1. *)
LinesWithMessage == {i \in 1..pos : extract_message(file[i]) # <<>>}

C2_MessageSum ==
    /\ MapSum(stats.message_counts) = Cardinality(LinesWithMessage)
    /\ <<>> \notin DOMAIN stats.message_counts
    /\ \A k \in DOMAIN stats.message_counts : stats.message_counts[k] >= 1

\* lines with and without a message have been folded
C2_Witness ==
    /\ pc = "read"
    /\ pos = Len(file)
    /\ LinesWithMessage # {}
    /\ Cardinality(LinesWithMessage) < pos
    /\ \E k \in DOMAIN stats.message_counts : stats.message_counts[k] = 2

-----------------------------------------------------------------------------
(* C3: print_results prints exactly min(top_n, number of distinct messages)
   numbered entries, ranked 1..k, by count descending and, among equal
   counts, by message ascending in byte order; no message left out would sort
   before a printed one. *)

\* a is before b in byte order: a proper prefix, or smaller at the first
\* byte where they differ
ByteBefore(a, b) ==
    \E k \in 0..Len(a) :
        /\ k <= Len(b)
        /\ \A i \in 1..k : a[i] = b[i]
        /\ \/ k = Len(a) /\ k < Len(b)
           \/ k < Len(a) /\ k < Len(b) /\ a[k + 1] < b[k + 1]

\* message m with count c ranks before message n with count d
RanksBefore(m, c, n, d) == c > d \/ (c = d /\ ByteBefore(m, n))

Entries == Printed(out, "entry")

C3_TopN ==
    (Done /\ exit_code = 0) =>
        LET mc == stats.message_counts
            k  == Len(Entries)
            shown == {Entries[i].text : i \in 1..k}
        IN  /\ top_n >= 1
            /\ k = (IF Cardinality(DOMAIN mc) < top_n
                    THEN Cardinality(DOMAIN mc) ELSE top_n)
            /\ \A i \in 1..k :
                  /\ Entries[i].rank = i
                  /\ Entries[i].text \in DOMAIN mc
                  /\ Entries[i].num = mc[Entries[i].text]
            /\ \A i, j \in 1..k :
                  i < j => RanksBefore(Entries[i].text, Entries[i].num,
                                       Entries[j].text, Entries[j].num)
            /\ \A m \in DOMAIN mc \ shown : \A i \in 1..k :
                  ~RanksBefore(m, mc[m], Entries[i].text, Entries[i].num)

\* three distinct messages of equal count, two of them printed
C3_Witness ==
    /\ Done
    /\ exit_code = 0
    /\ top_n = 2
    /\ Cardinality(DOMAIN stats.message_counts) = 3
    /\ Len(Entries) = 2

-----------------------------------------------------------------------------
(* C4: a run ends in exactly one of three outcomes.  Exit 1 with the usage
   text on standard output, the file never opened, when the argument list has
   zero, two or more than three arguments or a flag other than --top; exit 2
   with an error naming the path on standard error when the arguments are
   valid and the file cannot be opened; exit 0 otherwise.  The summary is
   printed only with exit 0, once, after every line has been folded. *)

\* the argument list has neither the shape <file> nor <file> --top <N>
BadShape ==
    \/ argc(argv) \notin {2, 4}
    \/ argc(argv) = 4 /\ Arg(argv, 2) # <<45, 45, 116, 111, 112>>

\* <file>, or <file> --top <N> with N one to nine decimal digits
PlainlyValid ==
    \/ argc(argv) = 2
    \/ /\ argc(argv) = 4
       /\ Arg(argv, 2) = <<45, 45, 116, 111, 112>>
       /\ Len(Arg(argv, 3)) \in 1..9
       /\ \A i \in 1..Len(Arg(argv, 3)) : Arg(argv, 3)[i] \in 48..57

C4_Outcomes ==
    /\ ~Done => /\ exit_code = -1
                /\ Printed(out, "summary") = <<>>
                /\ Printed(out, "usage") = <<>>
                /\ err = <<>>
    /\ Done =>
        /\ exit_code \in {0, 1, 2}
        /\ BadShape => exit_code = 1
        /\ PlainlyValid => exit_code = (IF opened = "yes" THEN 0 ELSE 2)
        /\ exit_code = 1 =>
              /\ opened = "no"
              /\ Len(out) = 1 /\ out[1].kind = "usage"
              /\ err = <<>>
        /\ exit_code = 2 =>
              /\ ~BadShape
              /\ opened = "failed"
              /\ out = <<>>
              /\ Len(err) = 1 /\ err[1].kind = "open_error"
              /\ err[1].text = Arg(argv, 1)
        /\ exit_code = 0 =>
              /\ ~BadShape
              /\ opened = "yes"
              /\ pos = Len(file)
              /\ stats.total_lines = Len(file)
              /\ Len(Printed(out, "summary")) = 1
              /\ Len(Printed(out, "total")) = 1
              /\ Printed(out, "total")[1].num = Len(file)
              /\ Printed(out, "usage") = <<>>
              /\ err = <<>>

\* a run with valid arguments whose file could not be opened
C4_Witness ==
    /\ Done
    /\ exit_code = 2
    /\ argc(argv) = 4
    /\ err # <<>>

-----------------------------------------------------------------------------
(* C5: invoked as <file> --top <N> with N not an integer (malformed, e.g.
   containing non-digit characters), parse_args fails and the run exits 1
   after printing usage. *)

\* an optional sign followed by decimal digits and nothing else
IsInteger(n) ==
    LET d == IF n # <<>> /\ n[1] \in {43, 45} THEN Tail(n) ELSE n
    IN  d # <<>> /\ \A i \in 1..Len(d) : d[i] \in 48..57

C5_MalformedTopRejected ==
    (/\ Done
     /\ argc(argv) = 4
     /\ Arg(argv, 2) = <<45, 45, 116, 111, 112>>
     /\ ~IsInteger(Arg(argv, 3)))
    => (exit_code = 1 /\ Printed(out, "usage") # <<>>)

-----------------------------------------------------------------------------
(* C6: extract_level returns the level of the first whitespace-delimited
   token, left to right, that case-insensitively equals one of TRACE, DEBUG,
   INFO, WARN, WARNING, ERROR, FATAL, with WARNING returned as WARN; it
   returns UNKNOWN exactly when no whole token equals a candidate. *)

Candidates == {TRACE, DEBUG, INFO, WARN, WARNING, ERROR, FATAL}

\* the tokens of s: the maximal runs of non-whitespace, as <<first, last>>
TokensOf(s) ==
    {t \in (1..Len(s)) \X (1..Len(s)) :
        /\ t[1] <= t[2]
        /\ \A i \in t[1]..t[2] : s[i] \notin Whitespace
        /\ t[1] = 1 \/ s[t[1] - 1] \in Whitespace
        /\ t[2] = Len(s) \/ s[t[2] + 1] \in Whitespace}

LowerCase(c) == IF c \in 65..90 THEN c + 32 ELSE c

SameIgnoringCase(a, b) ==
    /\ Len(a) = Len(b)
    /\ \A i \in 1..Len(a) : LowerCase(a[i]) = LowerCase(b[i])

\* the tokens of s that are a candidate, whatever their case
LevelTokens(s) ==
    {t \in TokensOf(s) :
        \E c \in Candidates : SameIgnoringCase(SubSeq(s, t[1], t[2]), c)}

C6_FirstLevelToken ==
    (pc \in {"level", "classified"}) =>
        LET M == LevelTokens(line)
        IN  /\ (level = UNKNOWN) <=> (M = {})
            /\ M # {} =>
                  LET t == CHOOSE x \in M : \A y \in M : x[1] <= y[1]
                      c == CHOOSE x \in Candidates :
                              SameIgnoringCase(SubSeq(line, t[1], t[2]), x)
                  IN  level = (IF c = WARNING THEN WARN ELSE c)

\* a line with two level tokens, the first of them not in upper case
C6_Witness ==
    /\ pc = "level"
    /\ Cardinality(LevelTokens(line)) = 2
    /\ level = WARN
    /\ \E t \in LevelTokens(line) : SubSeq(line, t[1], t[2]) = INFO

-----------------------------------------------------------------------------
(* C7: extract_message returns the text after the first " - " of the raw
   line with leading and trailing whitespace stripped, or the whole line so
   stripped when it holds no " - "; the result never begins or ends with a
   whitespace character. *)

\* the places of s where " - " starts
Separators(s) ==
    {p \in 1..Len(s) - 2 : s[p] = 32 /\ s[p + 1] = 45 /\ s[p + 2] = 32}

AfterFirstSeparator(s) ==
    IF Separators(s) = {} THEN s
    ELSE LET p == CHOOSE x \in Separators(s) : \A y \in Separators(s) : x <= y
         IN  SubSeq(s, p + 3, Len(s))

\* t is r without the whitespace at its two ends
IsStripped(r, t) ==
    /\ t = <<>> \/ (t[1] \notin Whitespace /\ t[Len(t)] \notin Whitespace)
    /\ \E i \in 1..Len(r) + 1 : \E j \in 0..Len(r) :
          /\ t = SubSeq(r, i, j)
          /\ \A k \in 1..Len(r) : (k < i \/ k > j) => r[k] \in Whitespace

C7_MessageAfterSeparator ==
    (pc = "classified") => IsStripped(AfterFirstSeparator(line), msg)

\* a line with two separators whose tail is changed by the stripping
C7_Witness ==
    /\ pc = "classified"
    /\ Cardinality(Separators(line)) = 2
    /\ msg # <<>>
    /\ msg # AfterFirstSeparator(line)

-----------------------------------------------------------------------------
(* C8: print_results prints one LEVEL: count line for each level present in
   level_counts and none for an absent level, each present level once, the
   levels of the fixed list in the order INFO, WARN, ERROR, DEBUG, TRACE,
   FATAL, UNKNOWN and before any level outside that list. *)

FixedOrder == <<INFO, WARN, ERROR, DEBUG, TRACE, FATAL, UNKNOWN>>

\* the place of a level in the fixed list, 0 outside it
PlaceOf(l) ==
    IF \E i \in 1..Len(FixedOrder) : FixedOrder[i] = l
    THEN CHOOSE i \in 1..Len(FixedOrder) : FixedOrder[i] = l
    ELSE 0

LevelItems == Printed(out, "level")

C8_LevelLines ==
    (Done /\ exit_code = 0) =>
        LET lc == stats.level_counts
            n  == Len(LevelItems)
        IN  /\ \A l \in DOMAIN lc :
                  Cardinality({i \in 1..n : LevelItems[i].text = l}) = 1
            /\ \A i \in 1..n :
                  /\ LevelItems[i].text \in DOMAIN lc
                  /\ LevelItems[i].num = lc[LevelItems[i].text]
            /\ \A i, j \in 1..n :
                  (i < j /\ PlaceOf(LevelItems[i].text) > 0
                         /\ PlaceOf(LevelItems[j].text) > 0)
                  => PlaceOf(LevelItems[i].text) < PlaceOf(LevelItems[j].text)
            /\ \A i, j \in 1..n :
                  (PlaceOf(LevelItems[i].text) > 0
                   /\ PlaceOf(LevelItems[j].text) = 0) => i < j

\* three levels printed, read from the file in another order than printed
C8_Witness ==
    /\ Done
    /\ exit_code = 0
    /\ Len(LevelItems) = 3
    /\ extract_level(file[1]) = UNKNOWN
    /\ extract_level(file[2]) = DEBUG
    /\ extract_level(file[3]) = ERROR

-----------------------------------------------------------------------------
(* C9: on a successful run the placeholder is printed exactly when
   message_counts is empty, and then no numbered entry is; with at least one
   message the placeholder is not printed, for every top_n parse_args can
   produce.  An empty file gives total_lines 0, no level line and the
   placeholder. *)

Placeholders == Printed(out, "placeholder")

C9_Placeholder ==
    (Done /\ exit_code = 0) =>
        /\ Len(Placeholders) <= 1
        /\ (Len(Placeholders) = 1) <=> (DOMAIN stats.message_counts = {})
        /\ Len(Placeholders) = 1 => Entries = <<>>
        /\ DOMAIN stats.message_counts # {} => Entries # <<>>
        /\ file = <<>> =>
              /\ stats.total_lines = 0
              /\ LevelItems = <<>>
              /\ Len(Placeholders) = 1

\* lines were read and none of them had a message
C9_Witness ==
    /\ Done
    /\ exit_code = 0
    /\ Len(file) = 2
    /\ DOMAIN stats.message_counts = {}
    /\ Len(Placeholders) = 1

-----------------------------------------------------------------------------
(* C10: every key of level_counts is one of TRACE, DEBUG, INFO, WARN, ERROR,
   FATAL, UNKNOWN, never WARNING, so the loop of print_results over the
   levels outside the fixed list prints nothing. *)

SevenLevels == {TRACE, DEBUG, INFO, WARN, ERROR, FATAL, UNKNOWN}

C10_LevelKeys ==
    /\ DOMAIN stats.level_counts \subseteq SevenLevels
    /\ WARNING \notin DOMAIN stats.level_counts
    /\ pos > 0 => level \in SevenLevels
    /\ \A i \in 1..Len(LevelItems) :
          \E j \in 1..Len(FixedOrder) : LevelItems[i].text = FixedOrder[j]

\* a line whose level token is "Warning" has been folded and reported
C10_Witness ==
    /\ Done
    /\ exit_code = 0
    /\ \E i \in 1..Len(file) :
          Len(file[i]) >= 7 /\ SameIgnoringCase(SubSeq(file[i], 1, 7), WARNING)
    /\ \E i \in 1..Len(LevelItems) : LevelItems[i].text = WARN

====
